---------------------------- MODULE Spec2Model ----------------------------
(***************************************************************************)
(* A model of bd_llm_tui (src/src/main.rs): the terminal chat client's     *)
(* main loop, its modal key handling, the conversation log, the input      *)
(* history, and the background request tasks that report through a bounded *)
(* channel.                                                                *)
(*                                                                         *)
(* Text is a sequence of characters.  A character is a one-element string; *)
(* a character outside ASCII is written as its code point ("U+6B63") and   *)
(* occupies three bytes in UTF-8, which is what String::len counts.        *)
(***************************************************************************)
EXTENDS Integers, Sequences, FiniteSets, TLC

(***************************************************************************)
(* Literal texts of the program.                                           *)
(***************************************************************************)
\* the waiting sentinel, main.rs:242 and main.rs:584
PENDING_TEXT == <<"U+6B63", "U+5728", "U+7B49", "U+5F85", "U+54CD", "U+5E94", ".", ".", ".">>
\* main.rs:204
AUTH_ERROR_TEXT == <<"U+9519", "U+8BEF", ":", " ", "U+8BF7", "U+5148", "U+914D", "U+7F6E", "A", "P", "I", "U+8BA4", "U+8BC1", "U+4EE4", "U+724C">>
\* main.rs:561
COPIED_TEXT == <<"U+5DF2", "U+590D", "U+5236", "U+5230", "U+526A", "U+8D34", "U+677F">>
\* main.rs:555
COPY_FAILED_PREFIX == <<"U+590D", "U+5236", "U+5230", "U+526A", "U+8D34", "U+677F", "U+5931", "U+8D25", ":", " ">>
\* main.rs:649
CONFIG_ERROR_PREFIX == <<"U+914D", "U+7F6E", "U+4FDD", "U+5B58", "U+9519", "U+8BEF", ":", " ">>
\* main.rs:686
MODEL_SWITCHED_PREFIX == <<"U+5DF2", "U+5207", "U+6362", "U+5230", "U+6A21", "U+578B", ":", " ">>
\* main.rs:298
REQUEST_ERROR_PREFIX == <<"U+8BF7", "U+6C42", "U+9519", "U+8BEF", ":", " ">>
\* main.rs:289
RESPONSE_ERROR_PREFIX == <<"U+54CD", "U+5E94", "U+89E3", "U+6790", "U+9519", "U+8BEF", ":", " ">>
\* main.rs:376
ROLE_USER == <<"U+4F60">>
\* main.rs:377
ROLE_AI == <<"A", "I">>
\* main.rs:378
ROLE_SYSTEM == <<"U+7CFB", "U+7EDF">>

\* The three-byte characters that occur in the program's texts.
WideChars ==
    { "U+2022", "U+4EE4", "U+4F60", "U+4FDD", "U+5148", "U+5207", "U+5230", "U+5236", "U+526A",
      "U+54CD", "U+5728", "U+578B", "U+590D", "U+5931", "U+5B58", "U+5DF2", "U+5E94",
      "U+5F85", "U+6362", "U+677F", "U+6790", "U+6A21", "U+6B63", "U+6C42", "U+724C",
      "U+7B49", "U+7CFB", "U+7EDF", "U+7F6E", "U+89E3", "U+8BA4", "U+8BC1", "U+8BEF",
      "U+8BF7", "U+8D25", "U+8D34", "U+914D", "U+9519" }

\* const AVAILABLE_MODELS: [&str; 21], main.rs:20-42
AVAILABLE_MODELS ==
    << <<"e", "r", "n", "i", "e", "-", "4", ".", "0", "-", "8", "k", "-", "l", "a", "t", "e", "s", "t">>,
       <<"e", "r", "n", "i", "e", "-", "4", ".", "0", "-", "8", "k", "-", "p", "r", "e", "v", "i", "e", "w">>,
       <<"e", "r", "n", "i", "e", "-", "4", ".", "0", "-", "8", "k">>,
       <<"e", "r", "n", "i", "e", "-", "4", ".", "0", "-", "t", "u", "r", "b", "o", "-", "8", "k", "-", "l", "a", "t", "e", "s", "t">>,
       <<"e", "r", "n", "i", "e", "-", "4", ".", "0", "-", "t", "u", "r", "b", "o", "-", "8", "k", "-", "p", "r", "e", "v", "i", "e", "w">>,
       <<"e", "r", "n", "i", "e", "-", "4", ".", "0", "-", "t", "u", "r", "b", "o", "-", "8", "k">>,
       <<"e", "r", "n", "i", "e", "-", "4", ".", "0", "-", "t", "u", "r", "b", "o", "-", "1", "2", "8", "k">>,
       <<"e", "r", "n", "i", "e", "-", "3", ".", "5", "-", "8", "k", "-", "p", "r", "e", "v", "i", "e", "w">>,
       <<"e", "r", "n", "i", "e", "-", "3", ".", "5", "-", "8", "k">>,
       <<"e", "r", "n", "i", "e", "-", "3", ".", "5", "-", "1", "2", "8", "k">>,
       <<"e", "r", "n", "i", "e", "-", "s", "p", "e", "e", "d", "-", "8", "k">>,
       <<"e", "r", "n", "i", "e", "-", "s", "p", "e", "e", "d", "-", "1", "2", "8", "k">>,
       <<"e", "r", "n", "i", "e", "-", "s", "p", "e", "e", "d", "-", "p", "r", "o", "-", "1", "2", "8", "k">>,
       <<"e", "r", "n", "i", "e", "-", "l", "i", "t", "e", "-", "8", "k">>,
       <<"e", "r", "n", "i", "e", "-", "l", "i", "t", "e", "-", "p", "r", "o", "-", "1", "2", "8", "k">>,
       <<"e", "r", "n", "i", "e", "-", "t", "i", "n", "y", "-", "8", "k">>,
       <<"e", "r", "n", "i", "e", "-", "c", "h", "a", "r", "-", "8", "k">>,
       <<"e", "r", "n", "i", "e", "-", "c", "h", "a", "r", "-", "f", "i", "c", "t", "i", "o", "n", "-", "8", "k">>,
       <<"e", "r", "n", "i", "e", "-", "n", "o", "v", "e", "l", "-", "8", "k">>,
       <<"d", "e", "e", "p", "s", "e", "e", "k", "-", "v", "3">>,
       <<"d", "e", "e", "p", "s", "e", "e", "k", "-", "r", "1">> >>

(***************************************************************************)
(* Text layout: App::wrap_text, main.rs:324-359.                           *)
(***************************************************************************)
\* String::len of one character: its UTF-8 length
ByteLen(c) == IF c \in WideChars THEN 3 ELSE 1

RECURSIVE StrLen(_)
\* String::len / str::len: the length in bytes
StrLen(s) == IF s = <<>> THEN 0 ELSE ByteLen(Head(s)) + StrLen(Tail(s))

\* char::is_whitespace, on the characters the model uses
IsWhitespace(c) == c \in {" ", "\t", "\n", "\r"}

\* str::lines ends a line at a line feed and removes the carriage return
\* that stands before it
StripCR(line) ==
    IF line # <<>> /\ line[Len(line)] = "\r" THEN SubSeq(line, 1, Len(line) - 1)
    ELSE line

RECURSIVE SplitLines(_, _)
\* the last line, when no line feed ends it, keeps a carriage return
SplitLines(text, cur) ==
    IF text = <<>> THEN (IF cur = <<>> THEN <<>> ELSE <<cur>>)
    ELSE IF Head(text) = "\n"
         THEN <<StripCR(cur)>> \o SplitLines(Tail(text), <<>>)
         ELSE SplitLines(Tail(text), Append(cur, Head(text)))

\* text.lines(), main.rs:326
Lines(text) == SplitLines(text, <<>>)

RECURSIVE SplitWords(_, _)
SplitWords(line, cur) ==
    IF line = <<>> THEN (IF cur = <<>> THEN <<>> ELSE <<cur>>)
    ELSE IF IsWhitespace(Head(line))
         THEN (IF cur = <<>> THEN <<>> ELSE <<cur>>) \o SplitWords(Tail(line), <<>>)
         ELSE SplitWords(Tail(line), Append(cur, Head(line)))

\* line.split_whitespace(), main.rs:328
SplitWhitespace(line) == SplitWords(line, <<>>)

\* a chunking that does not split: the whole word is one output line
Chunks_whole(word, width) == <<word>>

RECURSIVE Chunks(_, _)
\* main.rs:337-342: chars.by_ref().take(width) until the word is used up; each
\* chunk is one output line.  Only evaluated for width > 0.
Chunks(word, width) ==
    IF word = <<>> THEN <<>>
    ELSE IF Len(word) <= width THEN <<word>>
    ELSE <<SubSeq(word, 1, width)>> \o Chunks(SubSeq(word, width + 1, Len(word)), width)

RECURSIVE WrapWords(_, _, _, _)
\* the inner loop of wrap_text, main.rs:328-356, for the words of one line;
\* wrapped is the sequence of output lines so far
WrapWords(words, width, wrapped, current_line) ==
    IF words = <<>>
    THEN (IF current_line # <<>> THEN Append(wrapped, current_line) ELSE wrapped)
    ELSE LET word == Head(words) IN
         IF StrLen(current_line) + StrLen(word) + 1 > width
         THEN LET flushed == IF current_line # <<>>
                             THEN Append(wrapped, current_line) ELSE wrapped
              IN  IF StrLen(word) > width
                  THEN WrapWords(Tail(words), width, flushed \o Chunks(word, width), <<>>)
                  ELSE WrapWords(Tail(words), width, flushed, word)
         ELSE WrapWords(Tail(words), width, wrapped,
                        IF current_line # <<>>
                        THEN current_line \o <<" ">> \o word ELSE word)

RECURSIVE WrapLines(_, _)
WrapLines(lines, width) ==
    IF lines = <<>> THEN <<>>
    ELSE WrapWords(SplitWhitespace(Head(lines)), width, <<>>, <<>>)
         \o WrapLines(Tail(lines), width)

\* The output lines of wrap_text(text, width): the returned String is each of
\* them followed by a newline.
WrappedLines(text, width) == WrapLines(Lines(text), width)

\* main.rs:338-342: with width = 0 take(0) consumes nothing, so the while loop
\* over a non-empty word never ends.  Every word takes that branch when
\* width = 0 (main.rs:329, 336).
wrap_text_diverges(text, width) ==
    width = 0 /\ \E i \in 1..Len(text) : ~IsWhitespace(text[i])

RECURSIVE JoinNewlines(_)
JoinNewlines(lines) ==
    IF lines = <<>> THEN <<>>
    ELSE Head(lines) \o <<"\n">> \o JoinNewlines(Tail(lines))

\* App::wrap_text, where it returns
wrap_text(text, width) == JoinNewlines(WrappedLines(text, width))

(***************************************************************************)
(* Bounds of the model.                                                    *)
(***************************************************************************)
\* requests submitted with a token in one run
MaxRequests == 1
\* system messages, the placeholder aside, that the log holds when a key
\* appends one more (authentication error, clipboard result, model
\* confirmation, configuration error)
MaxNotes == 1
\* characters in the input buffer
MaxInput == 1
\* characters in the token draft of the Config popup
MaxToken == 1
\* the scroll offset up to which the Down key is followed
MaxScroll == 1
\* entries of the model catalog, counted from its end, that Up reaches in
\* the ModelSelect popup
MaxModelUp == 1
\* requests submitted in one run of the delivery pipeline, SpecPipeline
MaxPipelineRequests == 3
\* requests submitted in one run of the input history, SpecHistory
MaxHistoryRequests == 3
\* Capacity of the delivery channel.  The program creates it with
\* mpsc::channel(100) (main.rs:120); the model keeps the capacity small so
\* that a full channel, and a sender blocked on it, are within reach.
ChanCap == 2

(***************************************************************************)
(* Values.                                                                 *)
(***************************************************************************)
\* Option<T>: None is the empty sequence, Some(x) the sequence <<x>>
None == <<>>
Some(x) == <<x>>

\* u16, the type of scroll_offset and of the content height (main.rs:103, 161)
U16 == 65536

\* chrono::Local::now().format("%H:%M:%S"): eight one-byte characters
Now == <<"1", "2", ":", "0", "0", ":", "0", "0">>

\* struct Message, main.rs:45-49
Message(role, content) == [role |-> role, content |-> content, timestamp |-> Now]

\* the pending placeholder, main.rs:240-244
PendingMessage == Message("system", PENDING_TEXT)

Last(s) == s[Len(s)]
Front(s) == SubSeq(s, 1, Len(s) - 1)

(***************************************************************************)
(* Content height: get_content_width, format_history, get_content_height.  *)
(***************************************************************************)
\* u16/usize saturating_sub
SaturatingSub(a, b) == IF a > b THEN a - b ELSE 0

\* App::get_content_width, main.rs:361-368
get_content_width(a) ==
    IF a.response_area # None THEN SaturatingSub(a.response_area[1].width, 4) ELSE 80

\* main.rs:375-379
role_display(role) ==
    CASE role = "user" -> ROLE_USER
      [] role = "assistant" -> ROLE_AI
      [] OTHER -> ROLE_SYSTEM

\* main.rs:381
header(msg) == <<"[">> \o msg.timestamp \o <<"]", " ">> \o role_display(msg.role) \o <<":", " ">>

RECURSIVE Spaces(_)
Spaces(n) == IF n = 0 THEN <<>> ELSE <<" ">> \o Spaces(n - 1)

\* main.rs:381-402 for one message: the lines that
\* header + indented_content + "\n\n" adds to the formatted text
format_message(msg, width) ==
    LET h == header(msg)
        content_width == SaturatingSub(width, StrLen(h))
        wrapped == WrappedLines(msg.content, content_width)
        indented == [i \in 1..Len(wrapped) |->
                        IF i = 1 THEN wrapped[i] ELSE Spaces(StrLen(h)) \o wrapped[i]]
    IN  IF indented = <<>> THEN <<h, <<>> >>
        ELSE <<h \o indented[1]>> \o SubSeq(indented, 2, Len(indented)) \o << <<>> >>

RECURSIVE format_lines(_, _)
format_lines(history, width) ==
    IF history = <<>> THEN <<>>
    ELSE format_message(Head(history), width) \o format_lines(Tail(history), width)

\* App::format_history, main.rs:370-405, as the lines of the returned String
format_history(a) == format_lines(a.history, get_content_width(a))

\* format_history does not return: wrap_text is called with a content width of
\* zero on a message that holds a word (main.rs:387-388)
format_history_diverges(a) ==
    \E i \in 1..Len(a.history) :
        wrap_text_diverges(a.history[i].content,
                           SaturatingSub(get_content_width(a), StrLen(header(a.history[i]))))

\* App::get_content_height, main.rs:160-162
get_content_height(a) == Len(format_history(a)) % U16

\* an offset that is not forced to zero when the content fits
bottom_offset_unclamped(content_height, viewport_height) ==
    content_height - viewport_height

\* main.rs:165-170 and main.rs:594-599: the offset that shows the last lines
bottom_offset(content_height, viewport_height) ==
    IF content_height > viewport_height THEN content_height - viewport_height ELSE 0

\* App::scroll_to_bottom, main.rs:164-171.  The field hung marks that control
\* is inside the loop of main.rs:338-342 and never leaves it.
scroll_to_bottom(a, viewport_height) ==
    IF format_history_diverges(a) THEN [a EXCEPT !.hung = TRUE]
    ELSE [a EXCEPT !.scroll_offset = bottom_offset(get_content_height(a), viewport_height)]

(***************************************************************************)
(* The conversation log.                                                   *)
(***************************************************************************)
\* main.rs:583-587: the entry handle_new_message removes before it appends
pop_pending(history) ==
    IF history # <<>> /\ Last(history).content = PENDING_TEXT THEN Front(history)
    ELSE history

\* App::handle_new_message, main.rs:582-605
handle_new_message(a, message) ==
    LET pushed == [a EXCEPT !.history = Append(pop_pending(a.history), message)]
        scrolled == IF pushed.response_area # None
                    THEN scroll_to_bottom(pushed, pushed.response_area[1].height)
                    ELSE pushed
    IN  IF scrolled.hung THEN scrolled
        ELSE IF message.role = "assistant" THEN [scrolled EXCEPT !.is_loading = FALSE]
        ELSE scrolled

(***************************************************************************)
(* Input history, submission, scrolling, clipboard, configuration.         *)
(***************************************************************************)
\* App::navigate_history, main.rs:173-198.  input_history_index is the
\* zero-based index of the code.
navigate_history(a, up) ==
    IF a.input_history = <<>> THEN a
    ELSE LET n == Len(a.input_history)
             moved ==
                 IF a.input_history_index # None
                 THEN LET index == a.input_history_index[1] IN
                      IF up /\ index > 0
                      THEN [a EXCEPT !.input_history_index = Some(index - 1)]
                      ELSE IF ~up /\ index < n - 1
                      THEN [a EXCEPT !.input_history_index = Some(index + 1)]
                      ELSE a
                 ELSE [a EXCEPT !.current_input = a.input,
                                !.input_history_index = Some(IF up THEN n - 1 ELSE 0)]
         IN  [moved EXCEPT !.input = moved.input_history[moved.input_history_index[1] + 1]]

\* self.input.trim().is_empty(), main.rs:211
IsBlank(s) == \A i \in 1..Len(s) : IsWhitespace(s[i])

\* main.rs:210-215
record_input(input_history, input) ==
    IF ~IsBlank(input) /\ (input_history = <<>> \/ Last(input_history) # input)
    THEN Append(input_history, input)
    ELSE input_history

\* a request that names the catalog's last model whatever model is active
Request_last_model(a) ==
    [model |-> AVAILABLE_MODELS[Len(AVAILABLE_MODELS)], auth_token |-> a.auth_token,
     user_input |-> a.input]

\* What the spawned task owns: the values cloned at main.rs:222-226
Request(a) == [model |-> a.current_model, auth_token |-> a.auth_token, user_input |-> a.input]

\* send_request without the check of main.rs:201: an empty token is sent along
send_request_unchecked(a) ==
    LET reset == [a EXCEPT !.input_history = record_input(a.input_history, a.input),
                           !.input_history_index = None,
                           !.current_input = <<>>,
                           !.input = <<>>]
        with_user == handle_new_message(reset, Message("user", a.input))
        with_pending == handle_new_message([with_user EXCEPT !.is_loading = TRUE],
                                           PendingMessage)
    IN  [app |-> with_pending, spawn |-> Some(Request(a))]

\* App::send_request up to the spawn, main.rs:200-247: the application state
\* when it returns and the request it spawned, if any
send_request(a) ==
    IF a.auth_token = <<>>
    THEN [app |-> handle_new_message(a, Message("system", AUTH_ERROR_TEXT)), spawn |-> None]
    ELSE LET reset == [a EXCEPT !.input_history = record_input(a.input_history, a.input),
                                !.input_history_index = None,
                                !.current_input = <<>>,
                                !.input = <<>>]
             with_user == handle_new_message(reset, Message("user", a.input))
             with_pending ==
                 IF with_user.hung THEN with_user
                 ELSE handle_new_message([with_user EXCEPT !.is_loading = TRUE], PendingMessage)
         IN  [app |-> with_pending,
              spawn |-> IF with_pending.hung THEN None ELSE Some(Request(a))]

\* App::scroll, main.rs:543-549
scroll(a, up) ==
    IF up THEN [a EXCEPT !.scroll_offset = SaturatingSub(a.scroll_offset, 1)]
    ELSE [a EXCEPT !.scroll_offset = IF a.scroll_offset = U16 - 1 THEN U16 - 1
                                      ELSE a.scroll_offset + 1]

\* The errors the collaborators report (clipboard, configuration file,
\* transport), as the text their Display gives
ErrorTexts == { <<"f", "a", "i", "l", "e", "d">> }

\* App::copy_to_clipboard, main.rs:551-569; error is what set_contents
\* returned.  The field clipboard is the text the program last placed on the
\* system clipboard, if it placed one.
copy_to_clipboard(a, text, error) ==
    LET pushed == IF error # None
                  THEN [a EXCEPT !.history =
                           Append(a.history,
                                  Message("system", COPY_FAILED_PREFIX \o error[1]))]
                  ELSE [a EXCEPT !.clipboard = Some(text),
                                 !.history = Append(a.history, Message("system", COPIED_TEXT))]
    IN  IF pushed.response_area # None
        THEN scroll_to_bottom(pushed, pushed.response_area[1].height)
        ELSE pushed

\* a lookup from the front of the log: the first assistant message
RECURSIVE first_assistant_content(_)
first_assistant_content(history) ==
    IF history = <<>> THEN None
    ELSE IF Head(history).role = "assistant" THEN Some(Head(history).content)
    ELSE first_assistant_content(Tail(history))

\* main.rs:738-741: the content of the last assistant message, if any
RECURSIVE last_assistant_content(_)
last_assistant_content(history) ==
    IF history = <<>> THEN None
    ELSE IF Last(history).role = "assistant" THEN Some(Last(history).content)
    ELSE last_assistant_content(Front(history))

\* Config::load, main.rs:64-71: file is the stored token, or None when the
\* file is missing or does not parse
load(file) == IF file # None THEN [auth_token |-> file[1]] ELSE [auth_token |-> <<>>]

\* String::from("deepseek-r1"), main.rs:142
DEFAULT_MODEL == <<"d", "e", "e", "p", "s", "e", "e", "k", "-", "r", "1">>

\* App::new, main.rs:118-146
new(config) ==
    [ input |-> <<>>,
      auth_token |-> config.auth_token,
      show_config |-> FALSE,
      show_help |-> FALSE,
      config_input |-> <<>>,
      visible_token |-> config.auth_token,
      active_box |-> 0,
      history |-> <<>>,
      scroll_offset |-> 0,
      config |-> config,
      response_area |-> None,
      is_loading |-> FALSE,
      input_history |-> <<>>,
      input_history_index |-> None,
      current_input |-> <<>>,
      current_model |-> DEFAULT_MODEL,
      show_model_select |-> FALSE,
      model_select_index |-> Len(AVAILABLE_MODELS) - 1,
      clipboard |-> None,
      hung |-> FALSE ]

(***************************************************************************)
(* Key events and their routing, main.rs:636-771.                          *)
(***************************************************************************)
Key(code, ch, mods) == [code |-> code, ch |-> ch, mods |-> mods]

\* the keys that are no characters
PlainKeys(codes) == { Key(c, "", {}) : c \in codes }

\* the character keys pressed without a modifier
CharKeys(chars) == { Key("Char", c, {}) : c \in chars }

\* the character keys pressed with Alt
AltKeys(chars) == { Key("Char", c, {"ALT"}) : c \in chars }

CtrlC == Key("Char", "c", {"CONTROL"})

\* main.rs:637-640
help_key(a, key) ==
    IF key.code = "Esc" \/ (key.code = "Char" /\ key.ch = "h")
    THEN [a EXCEPT !.show_help = FALSE]
    ELSE a

\* App::save_config, main.rs:537-541, and Config::save, main.rs:73-81: the
\* in-memory configuration is updated before the write is attempted
save_config(a) == [a EXCEPT !.config = [auth_token |-> a.auth_token]]

\* a Config arm whose character keys reach the input buffer
config_key_types_input(a, key, error) ==
    IF key.code = "Enter"
    THEN LET set == save_config([a EXCEPT !.auth_token = a.config_input,
                                          !.visible_token = a.config_input])
             noted == IF error # None
                      THEN [set EXCEPT !.history =
                               Append(set.history,
                                      Message("system", CONFIG_ERROR_PREFIX \o error[1]))]
                      ELSE set
         IN  [noted EXCEPT !.show_config = FALSE, !.config_input = <<>>]
    ELSE IF key.code = "Char" THEN [a EXCEPT !.input = Append(a.input, key.ch)]
    ELSE IF key.code = "Backspace"
    THEN [a EXCEPT !.config_input = IF a.config_input = <<>> THEN <<>>
                                    ELSE Front(a.config_input)]
    ELSE IF key.code = "Esc" THEN [a EXCEPT !.show_config = FALSE, !.config_input = <<>>]
    ELSE a

\* Config::save, main.rs:73-81: what the configuration file holds after the
\* save of a token that returned error.  A save that fails in create_dir_all
\* leaves the file as it was; one that fails in fs::write has opened and
\* truncated it, and the file no longer loads as a token.
Config_save(file, token, error) ==
    IF error = None THEN {Some(token)} ELSE {file, None}

\* main.rs:641-667; error is what the write of the configuration file returned
config_key(a, key, error) ==
    IF key.code = "Enter"
    THEN LET set == save_config([a EXCEPT !.auth_token = a.config_input,
                                          !.visible_token = a.config_input])
             noted == IF error # None
                      THEN [set EXCEPT !.history =
                               Append(set.history,
                                      Message("system", CONFIG_ERROR_PREFIX \o error[1]))]
                      ELSE set
         IN  [noted EXCEPT !.show_config = FALSE, !.config_input = <<>>]
    ELSE IF key.code = "Char" THEN [a EXCEPT !.config_input = Append(a.config_input, key.ch)]
    ELSE IF key.code = "Backspace"
    THEN [a EXCEPT !.config_input = IF a.config_input = <<>> THEN <<>>
                                    ELSE Front(a.config_input)]
    ELSE IF key.code = "Esc" THEN [a EXCEPT !.show_config = FALSE, !.config_input = <<>>]
    ELSE a

\* a selection that Up moves without looking at the catalog's first entry
model_select_key_unclamped(a, key) ==
    IF key.code = "Up"
    THEN [a EXCEPT !.model_select_index = a.model_select_index - 1]
    ELSE IF key.code = "Down"
    THEN (IF a.model_select_index < Len(AVAILABLE_MODELS) - 1
          THEN [a EXCEPT !.model_select_index = a.model_select_index + 1] ELSE a)
    ELSE IF key.code = "Enter"
    THEN LET model == AVAILABLE_MODELS[a.model_select_index + 1] IN
         [a EXCEPT !.current_model = model,
                   !.show_model_select = FALSE,
                   !.history = Append(a.history,
                                      Message("system", MODEL_SWITCHED_PREFIX \o model))]
    ELSE IF key.code = "Esc" THEN [a EXCEPT !.show_model_select = FALSE]
    ELSE a

\* main.rs:668-694
model_select_key(a, key) ==
    IF key.code = "Up"
    THEN (IF a.model_select_index > 0
          THEN [a EXCEPT !.model_select_index = a.model_select_index - 1] ELSE a)
    ELSE IF key.code = "Down"
    THEN (IF a.model_select_index < Len(AVAILABLE_MODELS) - 1
          THEN [a EXCEPT !.model_select_index = a.model_select_index + 1] ELSE a)
    ELSE IF key.code = "Enter"
    THEN LET model == AVAILABLE_MODELS[a.model_select_index + 1] IN
         [a EXCEPT !.current_model = model,
                   !.show_model_select = FALSE,
                   !.history = Append(a.history,
                                      Message("system", MODEL_SWITCHED_PREFIX \o model))]
    ELSE IF key.code = "Esc" THEN [a EXCEPT !.show_model_select = FALSE]
    ELSE a

\* a routing that tries the character arm before the arms with a modifier
normal_arm_char_first(key) ==
    IF key.code = "Enter" THEN "Enter"
    ELSE IF key.code = "Tab" THEN "Tab"
    ELSE IF key.code = "Up" THEN "Up"
    ELSE IF key.code = "Down" THEN "Down"
    ELSE IF key.code = "Char" THEN "Char"
    ELSE IF key.code = "Backspace" THEN "Backspace"
    ELSE IF key.code = "Esc" THEN "Esc"
    ELSE "Other"

\* The arm of the match at main.rs:696-770 that takes the key: the arms are
\* tried in the order written.
normal_arm(key) ==
    IF key.code = "Enter" THEN "Enter"
    ELSE IF key.code = "Tab" THEN "Tab"
    ELSE IF key.code = "Up" THEN "Up"
    ELSE IF key.code = "Down" THEN "Down"
    ELSE IF key.code = "Char" /\ key.ch = "c" /\ "CONTROL" \in key.mods THEN "CtrlC"
    ELSE IF key.code = "Char" /\ key.ch = "h" /\ "ALT" \in key.mods THEN "AltH"
    ELSE IF key.code = "Char" /\ key.ch = "c" /\ "ALT" \in key.mods THEN "AltC"
    ELSE IF key.code = "Char" /\ key.ch = "y" /\ "ALT" \in key.mods THEN "AltY"
    ELSE IF key.code = "Char" /\ key.ch = "m" /\ "ALT" \in key.mods THEN "AltM"
    ELSE IF key.code = "Char" THEN "Char"
    ELSE IF key.code = "Backspace" THEN "Backspace"
    ELSE IF key.code = "Esc" THEN "Esc"
    ELSE "Other"

\* main.rs:707-713
normal_up(a) == IF a.active_box = 1 THEN scroll(a, TRUE) ELSE navigate_history(a, TRUE)

\* main.rs:714-725
normal_down(a) ==
    IF a.active_box = 1 THEN scroll(a, FALSE)
    ELSE IF a.input_history_index # None THEN navigate_history(a, FALSE)
    ELSE [a EXCEPT !.input = a.current_input, !.current_input = <<>>]

\* main.rs:751-754: position of the current model in the catalog
RECURSIVE position(_, _, _)
position(models, model, i) ==
    IF i > Len(models) THEN None
    ELSE IF models[i] = model THEN Some(i - 1)
    ELSE position(models, model, i + 1)

\* main.rs:748-755
open_model_select(a) ==
    LET found == position(AVAILABLE_MODELS, a.current_model, 1) IN
    [a EXCEPT !.show_model_select = TRUE,
              !.model_select_index = IF found # None THEN found[1]
                                     ELSE Len(AVAILABLE_MODELS) - 1]

\* an opening of the Config popup that starts from an empty draft
open_config_blank(a) == [a EXCEPT !.show_config = TRUE, !.config_input = <<>>]

\* main.rs:732-735
open_config(a) == [a EXCEPT !.show_config = TRUE, !.config_input = a.visible_token]

\* main.rs:729-731
open_help(a) == [a EXCEPT !.show_help = TRUE]

\* main.rs:736-747; error is what the clipboard returned
copy_last_reply(a, error) ==
    IF a.active_box = 1 /\ Len(a.history) > 0
    THEN LET content == last_assistant_content(a.history) IN
         IF content # None THEN copy_to_clipboard(a, content[1], error) ELSE a
    ELSE a

\* main.rs:756-760
push_char(a, c) == IF a.active_box = 0 THEN [a EXCEPT !.input = Append(a.input, c)] ELSE a

\* main.rs:761-765
pop_char(a) ==
    IF a.active_box = 0 /\ a.input # <<>> THEN [a EXCEPT !.input = Front(a.input)] ELSE a

\* a routing that leaves out the branch of main.rs:668
Mode_without_model_select(a) ==
    IF a.show_help THEN "Help"
    ELSE IF a.show_config THEN "Config"
    ELSE "Normal"

\* the modal state that routes a key, main.rs:637, 641, 668, 695
Mode(a) ==
    IF a.show_help THEN "Help"
    ELSE IF a.show_config THEN "Config"
    ELSE IF a.show_model_select THEN "ModelSelect"
    ELSE "Normal"

(***************************************************************************)
(* The background request task, main.rs:247-303.                           *)
(***************************************************************************)
\* the contents a response can carry in choices[0].message.content
Contents == { <<"h", "i">>, PENDING_TEXT }

\* What the transport gives a request: send() fails, text() fails, or a body
\* arrives that is not JSON, is JSON without a string at
\* choices[0].message.content, or carries a content there
Outcomes ==
    { [kind |-> k, text |-> e] : k \in {"send_error", "text_error"}, e \in ErrorTexts }
    \cup { [kind |-> k, text |-> <<>>] : k \in {"invalid_json", "no_content"} }
    \cup { [kind |-> "content", text |-> c] : c \in Contents }

\* main.rs:266-302: the message the task sends for an outcome, if it sends one
task_message(outcome) ==
    IF outcome.kind = "send_error"
    THEN Some(Message("system", REQUEST_ERROR_PREFIX \o outcome.text))
    ELSE IF outcome.kind = "text_error"
    THEN Some(Message("system", RESPONSE_ERROR_PREFIX \o outcome.text))
    ELSE IF outcome.kind = "content"
    THEN Some(Message("assistant", outcome.text))
    ELSE None

\* a receive that takes the newest message instead of the oldest
try_recv_newest(ch) == IF ch # <<>> THEN Some(Last(ch)) ELSE None

\* Receiver::try_recv, main.rs:628: the message taken, if one is queued
try_recv(ch) == IF ch # <<>> THEN Some(Head(ch)) ELSE None

\* a receive that waits for a message, as Receiver::recv does
recv_returns(ch) == ch # <<>>

\* Receiver::try_recv, main.rs:628, returns at once, with a message or without
try_recv_returns(ch) == TRUE

\* the channel after try_recv
after_recv(ch) == IF ch # <<>> THEN Tail(ch) ELSE ch

(***************************************************************************)
(* State.                                                                  *)
(***************************************************************************)
VARIABLES
    app,          \* struct App, main.rs:91-115 (and hung, see scroll_to_bottom)
    chan,         \* the messages queued in the mpsc channel, oldest first
    tasks,        \* the spawned request tasks, in the order of their submission
    pc,           \* where the main loop is: "recv", "draw", "poll", "exited"
    config_file   \* the token stored in the configuration file, if there is one

vars == <<app, chan, tasks, pc, config_file>>

\* the history pane's rectangle, chunks[1] of the layout (main.rs:571-580)
Areas == { [width |-> 80, height |-> 4] }

\* the tokens a configuration file holds at start
InitFiles == { None, Some(<<"a">>) }

(***************************************************************************)
(* An environment E names what the surroundings do in a specification: the *)
(* keys pressed, the pane's rectangles, the transport's outcomes, the      *)
(* configuration files found at start, how many requests are made, and how *)
(* far up the model catalog the selection is moved.                        *)
(***************************************************************************)
\* every key the handlers distinguish, with one text character
AllKeys ==
    PlainKeys({"Enter", "Tab", "Up", "Down", "Esc", "Backspace", "F1"})
    \cup CharKeys({"a"}) \cup {CtrlC} \cup AltKeys({"h", "c", "y", "m"})

\* the keys pressed while the Config popup is open: its character keys spell
\* the token
ConfigKeys ==
    PlainKeys({"Enter", "Tab", "Up", "Down", "Esc", "Backspace", "F1"}) \cup CharKeys({"a"})

FullEnv ==
    [ keys |-> AllKeys, config_keys |-> ConfigKeys, areas |-> Areas,
      outcomes |-> Outcomes, files |-> InitFiles, max_requests |-> MaxRequests,
      max_model_up |-> MaxModelUp ]

InitIn(E) ==
    /\ config_file \in E.files
    /\ app = new(load(config_file))
    /\ chan = <<>>
    /\ tasks = <<>>
    /\ pc = "recv"

\* the main loop runs: it has not left the loop and is not stuck in wrap_text
Running == pc # "exited" /\ ~app.hung

\* the receive step can be taken: the loop is there, and try_recv returns
ReceiveEnabled == pc = "recv" /\ Running /\ try_recv_returns(chan)

\* main.rs:628-630
Receive ==
    /\ ReceiveEnabled
    /\ app' = IF try_recv(chan) # None
              THEN handle_new_message(app, try_recv(chan)[1])
              ELSE app
    /\ chan' = after_recv(chan)
    /\ pc' = "draw"
    /\ UNCHANGED <<tasks, config_file>>

\* main.rs:632: ui calls update_layout (main.rs:796), which stores the pane
Draw(E) ==
    /\ pc = "draw" /\ Running
    /\ \E area \in E.areas : app' = [app EXCEPT !.response_area = Some(area)]
    /\ pc' = "poll"
    /\ UNCHANGED <<chan, tasks, config_file>>

\* the end of an iteration whose event, if any, left the loop running
Handled(a) ==
    /\ app' = a
    /\ pc' = "recv"
    /\ UNCHANGED <<chan, tasks, config_file>>

\* main.rs:634-635, 773: the poll times out, or the event is not a key
NoKey == pc = "poll" /\ Running /\ Handled(app)

RECURSIVE NoteCount(_)
\* the system messages of the log that are no placeholder
NoteCount(history) ==
    IF history = <<>> THEN 0
    ELSE NoteCount(Tail(history))
         + (IF Head(history).role = "system" /\ Head(history).content # PENDING_TEXT
            THEN 1 ELSE 0)

\* the bound on the messages that keys append
RoomForNote == NoteCount(app.history) < MaxNotes

\* what a collaborator returns: Ok, or one of its errors
Results == {None} \cup {Some(e) : e \in ErrorTexts}

\* main.rs:637-640
HelpKey(E) ==
    /\ pc = "poll" /\ Running /\ Mode(app) = "Help"
    /\ \E key \in E.keys : Handled(help_key(app, key))

\* main.rs:641-667
ConfigKey(E) ==
    /\ pc = "poll" /\ Running /\ Mode(app) = "Config"
    /\ \E key \in E.config_keys, error \in Results :
        /\ key.code = "Char" => Len(app.config_input) < MaxToken
        /\ key.code = "Enter" /\ error # None => RoomForNote
        /\ key.code # "Enter" => error = None
        /\ app' = config_key(app, key, error)
        /\ IF key.code = "Enter"
           THEN config_file' \in Config_save(config_file, app.config_input, error)
           ELSE config_file' = config_file
        /\ pc' = "recv"
        /\ UNCHANGED <<chan, tasks>>

\* main.rs:668-694
ModelSelectKey(E) ==
    /\ pc = "poll" /\ Running /\ Mode(app) = "ModelSelect"
    /\ \E key \in E.keys :
        /\ key.code = "Enter" => RoomForNote
        /\ key.code = "Up" =>
               app.model_select_index + E.max_model_up > Len(AVAILABLE_MODELS) - 1
        /\ Handled(model_select_key(app, key))

\* a key of the environment is taken by the given arm of the Normal match
NormalKey(E, arm) ==
    /\ pc = "poll" /\ Running /\ Mode(app) = "Normal"
    /\ \E key \in E.keys : normal_arm(key) = arm

\* a request task as spawned, main.rs:247
Spawned(request) == [state |-> "running", request |-> request, message |-> None, sends |-> 0]

\* main.rs:697-703 and the spawn of main.rs:247
NormalEnter(E) ==
    /\ NormalKey(E, "Enter")
    /\ IF app.active_box = 0
       THEN LET r == send_request(app) IN
            /\ IF app.auth_token = <<>> THEN RoomForNote
               ELSE Len(tasks) < E.max_requests
            /\ app' = r.app
            /\ tasks' = IF r.spawn # None THEN Append(tasks, Spawned(r.spawn[1])) ELSE tasks
       ELSE UNCHANGED <<app, tasks>>
    /\ pc' = "recv"
    /\ UNCHANGED <<chan, config_file>>

\* main.rs:704-706
NormalTab(E) ==
    NormalKey(E, "Tab") /\ Handled([app EXCEPT !.active_box = 1 - app.active_box])

\* main.rs:707-713
NormalUp(E) == NormalKey(E, "Up") /\ Handled(normal_up(app))

\* main.rs:714-725
NormalDown(E) ==
    /\ NormalKey(E, "Down")
    /\ app.active_box = 1 => app.scroll_offset < MaxScroll
    /\ Handled(normal_down(app))

\* main.rs:726-728
NormalCtrlC(E) ==
    /\ NormalKey(E, "CtrlC")
    /\ pc' = "exited"
    /\ UNCHANGED <<app, chan, tasks, config_file>>

\* main.rs:729-731
NormalAltH(E) == NormalKey(E, "AltH") /\ Handled(open_help(app))

\* main.rs:732-735
NormalAltC(E) == NormalKey(E, "AltC") /\ Handled(open_config(app))

\* main.rs:736-747
NormalAltY(E) ==
    /\ NormalKey(E, "AltY")
    /\ \E error \in Results :
        /\ copy_last_reply(app, error) # app => RoomForNote
        /\ copy_last_reply(app, None) = app => error = None
        /\ Handled(copy_last_reply(app, error))

\* main.rs:748-755
NormalAltM(E) == NormalKey(E, "AltM") /\ Handled(open_model_select(app))

\* main.rs:756-760
NormalChar(E) ==
    /\ pc = "poll" /\ Running /\ Mode(app) = "Normal"
    /\ \E key \in E.keys :
        /\ normal_arm(key) = "Char"
        /\ app.active_box = 0 => Len(app.input) < MaxInput
        /\ Handled(push_char(app, key.ch))

\* main.rs:761-765
NormalBackspace(E) == NormalKey(E, "Backspace") /\ Handled(pop_char(app))

\* main.rs:766-768
NormalEsc(E) ==
    /\ NormalKey(E, "Esc")
    /\ pc' = "exited"
    /\ UNCHANGED <<app, chan, tasks, config_file>>

\* main.rs:769
NormalOther(E) == NormalKey(E, "Other") /\ Handled(app)

\* main.rs:266-302: the transport answers request i and the task sends its
\* message, if it has one and the channel has room; with the channel full the
\* task waits in tx.send.  A finished task holds nothing but the number of
\* messages it sent.
Finished(sends) == [state |-> "done", request |-> None, message |-> None, sends |-> sends]

TaskComplete(E, i) ==
    /\ pc # "exited"
    /\ tasks[i].state = "running"
    /\ \E outcome \in E.outcomes :
        LET m == task_message(outcome) IN
        IF m = None
        THEN /\ tasks' = [tasks EXCEPT ![i] = Finished(0)]
             /\ chan' = chan
        ELSE IF Len(chan) < ChanCap
        THEN /\ tasks' = [tasks EXCEPT ![i] = Finished(1)]
             /\ chan' = Append(chan, m[1])
        ELSE /\ tasks' = [tasks EXCEPT ![i].state = "blocked", ![i].message = m]
             /\ chan' = chan
    /\ UNCHANGED <<app, pc, config_file>>

\* a task waiting in tx.send is resumed when the channel has room
TaskUnblock(i) ==
    /\ pc # "exited"
    /\ tasks[i].state = "blocked"
    /\ Len(chan) < ChanCap
    /\ chan' = Append(chan, tasks[i].message[1])
    /\ tasks' = [tasks EXCEPT ![i] = Finished(1)]
    /\ UNCHANGED <<app, pc, config_file>>

(***************************************************************************)
(* The whole program: every key, every popup.  It submits at most          *)
(* MaxRequests requests, fewer than the channel holds, so no task waits in *)
(* send here; SpecPipeline has the full channel.                           *)
(***************************************************************************)
Init == InitIn(FullEnv)

Next ==
    \/ Receive
    \/ Draw(FullEnv)
    \/ NoKey
    \/ HelpKey(FullEnv)
    \/ ConfigKey(FullEnv)
    \/ ModelSelectKey(FullEnv)
    \/ NormalEnter(FullEnv)
    \/ NormalTab(FullEnv)
    \/ NormalUp(FullEnv)
    \/ NormalDown(FullEnv)
    \/ NormalCtrlC(FullEnv)
    \/ NormalAltH(FullEnv)
    \/ NormalAltC(FullEnv)
    \/ NormalAltY(FullEnv)
    \/ NormalAltM(FullEnv)
    \/ NormalChar(FullEnv)
    \/ NormalBackspace(FullEnv)
    \/ NormalEsc(FullEnv)
    \/ NormalOther(FullEnv)
    \/ \E i \in 1..Len(tasks) : TaskComplete(FullEnv, i)

Spec == Init /\ [][Next]_vars

(***************************************************************************)
(* The delivery pipeline: submissions without text, the request tasks, the *)
(* channel and the main loop's receive step.  No popup is opened.          *)
(***************************************************************************)
PipelineKeys ==
    PlainKeys({"Enter", "Tab", "Esc", "F1"}) \cup AltKeys({"y"})

PipelineEnv ==
    [ keys |-> PipelineKeys, config_keys |-> {}, areas |-> Areas,
      outcomes |-> Outcomes, files |-> {Some(<<"a">>)},
      max_requests |-> MaxPipelineRequests,
      max_model_up |-> MaxModelUp ]

InitPipeline == InitIn(PipelineEnv)

NextPipeline ==
    \/ Receive
    \/ Draw(PipelineEnv)
    \/ NoKey
    \/ NormalEnter(PipelineEnv)
    \/ NormalTab(PipelineEnv)
    \/ NormalAltY(PipelineEnv)
    \/ NormalEsc(PipelineEnv)
    \/ NormalOther(PipelineEnv)
    \/ \E i \in 1..Len(tasks) : TaskComplete(PipelineEnv, i)
    \/ \E i \in 1..Len(tasks) : TaskUnblock(i)

SpecPipeline == InitPipeline /\ [][NextPipeline]_vars

\* The main thread is scheduled and the poll of main.rs:634 times out after
\* 100 ms: the loop's own steps are taken when they can be.  Nothing is
\* assumed of the request tasks, which may take arbitrarily long.  ReceiveFair
\* is WF_vars(Receive) with ENABLED Receive written as ReceiveEnabled, the
\* guard of Receive.
ReceiveFair == []<>(~ReceiveEnabled) \/ []<><<pc = "recv" /\ pc' = "draw">>_vars

SpecPipelineLoop ==
    SpecPipeline /\ ReceiveFair /\ WF_vars(Draw(PipelineEnv)) /\ WF_vars(NoKey)

(***************************************************************************)
(* The input history: texts of one character are typed, submitted and      *)
(* recalled while the requests are still in flight.                        *)
(***************************************************************************)
HistoryKeys ==
    PlainKeys({"Enter", "Up", "Down", "Backspace"}) \cup CharKeys({"a", "b", "c"})

HistoryEnv ==
    [ keys |-> HistoryKeys, config_keys |-> {}, areas |-> Areas,
      outcomes |-> {}, files |-> {Some(<<"a">>)},
      max_requests |-> MaxHistoryRequests,
      max_model_up |-> MaxModelUp ]

InitHistory == InitIn(HistoryEnv)

NextHistory ==
    \/ Receive
    \/ Draw(HistoryEnv)
    \/ NoKey
    \/ NormalEnter(HistoryEnv)
    \/ NormalUp(HistoryEnv)
    \/ NormalDown(HistoryEnv)
    \/ NormalChar(HistoryEnv)
    \/ NormalBackspace(HistoryEnv)

SpecHistory == InitHistory /\ [][NextHistory]_vars

(***************************************************************************)
(* Properties.                                                             *)
(***************************************************************************)
\* the pending placeholder as the specification defines it: a system message
\* with the waiting text
IsPlaceholder(m) == m.role = "system" /\ m.content = PENDING_TEXT

\* the positions of the log that hold a placeholder
Placeholders(history) == { i \in 1..Len(history) : IsPlaceholder(history[i]) }

\* the positions of the log that hold a user message
UserMessages(history) == { i \in 1..Len(history) : history[i].role = "user" }

\* C1: every request task that has run to its end has sent exactly one
\* message into the channel, whatever the transport gave it.
C1_ExactlyOneMessage ==
    \A i \in 1..Len(tasks) : tasks[i].state = "done" => tasks[i].sends = 1

\* C2: the log holds at most one pending placeholder, and a placeholder it
\* holds is its last entry.
C2_OnePlaceholderAtTail ==
    /\ Cardinality(Placeholders(app.history)) <= 1
    /\ Placeholders(app.history) \subseteq {Len(app.history)}

\* a submission with a token: Enter in Normal with the input focused
SubmitStep(E) == NormalEnter(E) /\ app.active_box = 0 /\ app.auth_token # <<>>

\* the main loop receives a reply
ReplyStep == Receive /\ chan # <<>> /\ Head(chan).role = "assistant"

\* C3: a submission with a token leaves the user's message and then the
\* placeholder at the end of the log, the input empty and the loading flag
\* set; receiving the reply leaves no placeholder in the log, the reply at its
\* end and the loading flag cleared.
C3_SubmitThenReply ==
    [][ /\ SubmitStep(FullEnv) =>
            LET h == app'.history IN
            /\ Len(h) >= 2
            /\ h[Len(h) - 1] = Message("user", app.input)
            /\ IsPlaceholder(h[Len(h)])
            /\ app'.input = <<>>
            /\ app'.is_loading
        /\ ReplyStep =>
            /\ Placeholders(app'.history) = {}
            /\ Last(app'.history) = Head(chan)
            /\ ~app'.is_loading ]_vars

\* a submission without a token
EmptyTokenSubmit(E) == NormalEnter(E) /\ app.active_box = 0 /\ app.auth_token = <<>>

\* C4: a submission made while the token is empty spawns no task, sends
\* nothing, and appends exactly one message, the system message with the
\* authentication error; it appends no user message and no placeholder.
C4_EmptyTokenSubmit ==
    [][ EmptyTokenSubmit(FullEnv) =>
            /\ tasks' = tasks
            /\ chan' = chan
            /\ app'.history # <<>>
            /\ Last(app'.history) = Message("system", AUTH_ERROR_TEXT)
            /\ Front(app'.history) \in {app.history, Front(app.history)}
            /\ Cardinality(UserMessages(app'.history))
                   <= Cardinality(UserMessages(app.history))
            /\ Cardinality(Placeholders(app'.history))
                   <= Cardinality(Placeholders(app.history)) ]_vars

\* C4 happens: the token was emptied while a request was in flight, and the
\* submission that followed left the authentication error in the log
C4_Witness ==
    /\ app.auth_token = <<>>
    /\ Len(tasks) = 1
    /\ app.history # <<>>
    /\ Last(app.history) = Message("system", AUTH_ERROR_TEXT)

\* the input history of C5
ABC == << <<"a">>, <<"b">>, <<"c">> >>

\* C5: with the input focused and the input history [a, b, c], Up from no
\* navigation saves the draft and shows c, Up then shows b, then a, and stays
\* on a; Down shows b after a and c after b; Down on c restores the saved
\* draft and clears the navigation cursor.
C5_NavigateABC ==
    [][ (app.input_history = ABC /\ app.active_box = 0) =>
        /\ NormalUp(HistoryEnv) =>
             IF app.input_history_index = None
             THEN /\ app'.current_input = app.input
                  /\ app'.input_history_index = Some(2)
                  /\ app'.input = <<"c">>
             ELSE IF app.input_history_index = Some(2)
             THEN app'.input_history_index = Some(1) /\ app'.input = <<"b">>
             ELSE app'.input_history_index = Some(0) /\ app'.input = <<"a">>
        /\ (NormalDown(HistoryEnv) /\ app.input_history_index # None) =>
             IF app.input_history_index = Some(0)
             THEN app'.input_history_index = Some(1) /\ app'.input = <<"b">>
             ELSE IF app.input_history_index = Some(1)
             THEN app'.input_history_index = Some(2) /\ app'.input = <<"c">>
             ELSE /\ app'.input_history_index = None
                  /\ app'.input = app.current_input ]_vars

\* C6: handle_new_message, applied when a message is received, removes the
\* last entry of the log exactly when that entry is the pending placeholder,
\* and leaves the new message as the last entry.
C6_AppendReplacesPlaceholder ==
    [][ (Receive /\ chan # <<>>) =>
            app'.history =
                Append(IF app.history # <<>> /\ IsPlaceholder(Last(app.history))
                       THEN Front(app.history) ELSE app.history,
                       Head(chan)) ]_vars

\* the popups that are open
Popups(a) ==
    (IF a.show_help THEN {"Help"} ELSE {})
    \cup (IF a.show_config THEN {"Config"} ELSE {})
    \cup (IF a.show_model_select THEN {"ModelSelect"} ELSE {})

\* C7: at most one of the Help, Config and ModelSelect popups is open, and a
\* step that opens a popup starts with none open.
C7_OnePopup ==
    /\ [](Cardinality(Popups(app)) <= 1)
    /\ [][ ~(Popups(app') \subseteq Popups(app)) => Popups(app) = {} ]_vars

\* C7 happens: the popup of the lowest precedence is the one open
C7_Witness == Popups(app) = {"ModelSelect"} /\ pc = "recv"

\* C8: the receive step of an iteration moves every queued message into the
\* log before the redraw: it leaves the channel empty.
C8_ReceiveDrains ==
    [][ Receive => (chan' = <<>> /\ pc' = "draw") ]_vars

\* C9: the main loop never waits for a request task or for the channel: given
\* only that the loop's own steps are taken (SpecPipelineLoop assumes nothing
\* of the tasks), the loop always gets from its receive step to the redraw,
\* from the redraw to the poll, and from the poll to the next iteration or to
\* the exit.
C9_LoopNeverWaits ==
    /\ (pc = "recv") ~> (pc = "draw")
    /\ (pc = "draw") ~> (pc = "poll")
    /\ (pc = "poll") ~> (pc \in {"recv", "exited"})

\* C9 happens: the channel is full, a task waits in send, a request is still
\* in flight, and the loop polls for its next event
C9_Witness ==
    /\ Len(chan) = ChanCap
    /\ \E i \in 1..Len(tasks) : tasks[i].state = "blocked"
    /\ pc = "poll"
    /\ Running

\* C10: the channel is a queue and the loop appends what it takes: a step
\* that changes the channel either is a task's send, which adds one message
\* at its end and leaves the log alone, or is the loop's receive, which takes
\* the oldest message and leaves it as the last entry of the log, above the
\* entries the log held (the placeholder aside); no other step changes the log
\* while the loop is at its receive step.
C10_ArrivalOrder ==
    [][ /\ chan' # chan =>
            \/ /\ Len(chan') = Len(chan) + 1
               /\ SubSeq(chan', 1, Len(chan)) = chan
               /\ app' = app
            \/ /\ chan # <<>>
               /\ chan' = Tail(chan)
               /\ app'.history # <<>>
               /\ Last(app'.history) = Head(chan)
               /\ Front(app'.history) \in {app.history, pop_pending(app.history)}
        /\ (pc = "recv" /\ app'.history # app.history) => chan' # chan ]_vars

\* C10 happens: the reply to the second request is in the log while the first
\* request is still in flight
C10_Witness ==
    /\ Len(tasks) >= 2
    /\ tasks[1].state = "running"
    /\ tasks[2].state = "done" /\ tasks[2].sends = 1
    /\ chan = <<>>
    /\ app.history # <<>>
    /\ Last(app.history).role = "assistant"

\* the entries of the log that are no pending placeholder, in their order
Kept(history) == SelectSeq(history, LAMBDA m : ~IsPlaceholder(m))

\* s is the beginning of t
IsPrefix(s, t) == Len(s) <= Len(t) /\ SubSeq(t, 1, Len(s)) = s

\* C11: no step removes an entry of the log that is no pending placeholder:
\* the user messages, assistant messages and other system messages the log
\* holds before a step are, in the same order, the first of those it holds
\* after the step.
C11_OnlyPlaceholderRemoved ==
    [][ IsPrefix(Kept(app.history), Kept(app'.history)) ]_vars

(***************************************************************************)
(* Scrolling to the bottom: a reply is delivered into a log of several     *)
(* exchanges, shown in a pane of one of two heights, and is then copied.   *)
(***************************************************************************)
\* exchanges (a user message and its reply) the log holds at the start
MaxExchanges == 6
\* the scroll offset at the start
MaxOffset == 2

\* the pane's rectangles: four or twenty rows
ScrollAreas == { [width |-> 80, height |-> 4], [width |-> 80, height |-> 20] }

ScrollKeys == PlainKeys({"Tab", "Down"}) \cup AltKeys({"y"})

ScrollEnv ==
    [ keys |-> ScrollKeys, config_keys |-> {}, areas |-> ScrollAreas,
      outcomes |-> {}, files |-> {Some(<<"a">>)}, max_requests |-> 0,
      max_model_up |-> MaxModelUp ]

\* the log after k exchanges
Exchanges(k) ==
    [i \in 1..(2 * k) |->
        Message(IF i % 2 = 1 THEN "user" ELSE "assistant", <<"h", "i">>)]

\* the reply to the last submission waits in the channel; the user has
\* scrolled to some offset
InitScroll ==
    /\ config_file = Some(<<"a">>)
    /\ \E k \in 0..MaxExchanges, o \in 0..MaxOffset, area \in ScrollAreas :
        app = [new(load(config_file)) EXCEPT
                  !.history = Exchanges(k)
                              \o <<Message("user", <<"h", "i">>), PendingMessage>>,
                  !.input_history = << <<"h", "i">> >>,
                  !.is_loading = TRUE,
                  !.scroll_offset = o,
                  !.response_area = Some(area)]
    /\ chan = <<Message("assistant", <<"h", "i">>)>>
    /\ tasks = <<Finished(1)>>
    /\ pc = "recv"

NextScroll ==
    \/ Receive
    \/ Draw(ScrollEnv)
    \/ NoKey
    \/ NormalTab(ScrollEnv)
    \/ NormalDown(ScrollEnv)
    \/ NormalAltY(ScrollEnv)

SpecScroll == InitScroll /\ [][NextScroll]_vars

\* a step that scrolls to the bottom: a message is received, or a reply is
\* copied
ScrollsToBottom ==
    \/ Receive /\ chan # <<>>
    \/ NormalAltY(ScrollEnv) /\ app'.history # app.history

\* C12: a step that scrolls to the bottom leaves the offset 0 when the
\* content height is no larger than the viewport height, and the content
\* height minus the viewport height otherwise, whatever the offset was.
C12_ScrollToBottom ==
    [][ (ScrollsToBottom /\ app.response_area # None) =>
            LET content == get_content_height(app')
                viewport == app.response_area[1].height
            IN  app'.scroll_offset =
                    IF content <= viewport THEN 0 ELSE content - viewport ]_vars

\* C12 happens: the copy of a reply left a content of 30 lines in a viewport
\* of 20, and the offset is 10
C12_Witness ==
    /\ app.history # <<>>
    /\ Last(app.history).content = COPIED_TEXT
    /\ get_content_height(app) = 30
    /\ app.response_area = Some([width |-> 80, height |-> 20])
    /\ app.scroll_offset = 10

\* C12, the other case: the copy left a content of 10 lines in a viewport of
\* 20, and the offset is 0
C12_Fits ==
    /\ app.history # <<>>
    /\ Last(app.history).content = COPIED_TEXT
    /\ get_content_height(app) = 10
    /\ app.response_area = Some([width |-> 80, height |-> 20])
    /\ app.scroll_offset = 0

(***************************************************************************)
(* Text layout: a request is answered with any short text of letters,      *)
(* three-byte characters, spaces and line breaks.                          *)
(***************************************************************************)
\* characters of a reply
MaxText == 6
\* the widths at which the wrapped lines are examined
MaxWrapWidth == 3

LayoutChars == { "a", " ", "\n", "U+6B63" }

\* the texts of at most n characters
Texts(n) == UNION { [1..k -> LayoutChars] : k \in 0..n }

LayoutEnv ==
    [ keys |-> PlainKeys({"Enter"}), config_keys |-> {}, areas |-> Areas,
      outcomes |-> { [kind |-> "content", text |-> t] : t \in Texts(MaxText) },
      files |-> {Some(<<"a">>)}, max_requests |-> 1,
      max_model_up |-> MaxModelUp ]

InitLayout == InitIn(LayoutEnv)

NextLayout ==
    \/ Receive
    \/ Draw(LayoutEnv)
    \/ NoKey
    \/ NormalEnter(LayoutEnv)
    \/ \E i \in 1..Len(tasks) : TaskComplete(LayoutEnv, i)

SpecLayout == InitLayout /\ [][NextLayout]_vars

\* the whitespace-delimited tokens of a text, line by line
RECURSIVE TokensOf(_)
TokensOf(lines) ==
    IF lines = <<>> THEN <<>>
    ELSE SplitWhitespace(Head(lines)) \o TokensOf(Tail(lines))

\* the j-th piece of width characters of a token
Piece(token, width, j) ==
    SubSeq(token, (j - 1) * width + 1,
           IF j * width < Len(token) THEN j * width ELSE Len(token))

\* the pieces of a token are consecutive lines of out
SplitInto(token, width, out) ==
    LET n == (Len(token) + width - 1) \div width IN
    \E k \in 1..Len(out) :
        /\ k + n - 1 <= Len(out)
        /\ \A j \in 1..n : out[k + j - 1] = Piece(token, width, j)

\* what C13 says of the lines wrap_text makes of a text at a width
WrapsWithin(text, width) ==
    LET out == WrappedLines(text, width) IN
    /\ \A j \in 1..Len(out) : Len(out[j]) <= width
    /\ LET tokens == TokensOf(Lines(text)) IN
       \A t \in 1..Len(tokens) :
           Len(tokens[t]) > width => SplitInto(tokens[t], width, out)
    /\ \A p \in 1..Len(text) :
           text[p] = "\n" =>
               out = WrappedLines(SubSeq(text, 1, p - 1), width)
                     \o WrappedLines(SubSeq(text, p + 1, Len(text)), width)

\* C13: for every message of the log and every width W from 1 on, each line
\* wrap_text makes of its content has at most W characters, a token longer
\* than W appears as consecutive lines of exactly W characters and a last one
\* of at most W, and no output line holds words of two input lines.
C13_WrapWithinWidth ==
    \A i \in 1..Len(app.history) : \A width \in 1..MaxWrapWidth :
        WrapsWithin(app.history[i].content, width)

\* C13 happens: a reply with a token longer than every examined width,
\* followed by a second line, is in the log
C13_Witness ==
    /\ pc = "draw"
    /\ app.history # <<>>
    /\ Last(app.history) = Message("assistant", <<"a", "a", "U+6B63", "a", "\n", "a">>)

\* the positions of the log that hold an assistant message
AssistantMessages(history) == { i \in 1..Len(history) : history[i].role = "assistant" }

\* the largest element of a non-empty set of numbers
Max(S) == CHOOSE x \in S : \A y \in S : y <= x

\* Alt+Y is handled with the history pane focused
CopyStep(E) == NormalAltY(E) /\ app.active_box = 1

\* C14: the copy action on a log without an assistant message copies nothing
\* and changes nothing; otherwise the text it hands to the clipboard is the
\* content of the assistant message nearest the end of the log, whatever
\* follows that message.
C14_LastAssistant ==
    [][ CopyStep(PipelineEnv) =>
            LET found == AssistantMessages(app.history) IN
            IF found = {} THEN app' = app
            ELSE /\ Len(app'.history) = Len(app.history) + 1
                 /\ \/ /\ Last(app'.history).content = COPIED_TEXT
                       /\ app'.clipboard = Some(app.history[Max(found)].content)
                    \/ /\ Last(app'.history).content # COPIED_TEXT
                       /\ app'.clipboard = app.clipboard ]_vars

\* C14 happens: two replies of different content are in the log, and the
\* later one was copied
C14_Witness ==
    /\ Cardinality(AssistantMessages(app.history)) = 2
    /\ \E i \in AssistantMessages(app.history) :
           /\ i < Max(AssistantMessages(app.history))
           /\ app.history[i].content # app.history[Max(AssistantMessages(app.history))].content
    /\ app.clipboard = Some(app.history[Max(AssistantMessages(app.history))].content)
    /\ Last(app.history).content = COPIED_TEXT

(***************************************************************************)
(* The model catalog: the ModelSelect popup is opened, the selection is    *)
(* moved over the whole catalog, and a model is confirmed.                 *)
(***************************************************************************)
ModelKeys == PlainKeys({"Up", "Down", "Enter", "Esc", "F1"}) \cup AltKeys({"m"})

ModelEnv ==
    [ keys |-> ModelKeys, config_keys |-> {}, areas |-> Areas,
      outcomes |-> {}, files |-> {Some(<<"a">>)}, max_requests |-> 0,
      max_model_up |-> Len(AVAILABLE_MODELS) ]

InitModel == InitIn(ModelEnv)

NextModel ==
    \/ Receive
    \/ Draw(ModelEnv)
    \/ NoKey
    \/ ModelSelectKey(ModelEnv)
    \/ NormalUp(ModelEnv)
    \/ NormalDown(ModelEnv)
    \/ NormalAltM(ModelEnv)
    \/ NormalEsc(ModelEnv)
    \/ NormalOther(ModelEnv)

SpecModel == InitModel /\ [][NextModel]_vars

\* the key is handled in the ModelSelect popup
ModelSelectStep(key) ==
    /\ pc = "poll" /\ Running /\ Mode(app) = "ModelSelect"
    /\ pc' = "recv"
    /\ app' = model_select_key(app, key)

\* C15: the selection index stays within the catalog; in ModelSelect, Up and
\* Down move it by one, stopping at the catalog's ends, and change nothing
\* else; Enter makes the entry at the index the active model, appends the
\* confirmation and closes the popup; Escape closes the popup and leaves the
\* active model and the log alone; Alt+M opens the popup with the index on
\* the active model.
C15_ModelSelect ==
    /\ [](app.model_select_index \in 0..(Len(AVAILABLE_MODELS) - 1))
    /\ [][ /\ ModelSelectStep(Key("Up", "", {})) =>
               app' = [app EXCEPT !.model_select_index =
                          IF @ > 0 THEN @ - 1 ELSE 0]
           /\ ModelSelectStep(Key("Down", "", {})) =>
               app' = [app EXCEPT !.model_select_index =
                          IF @ < Len(AVAILABLE_MODELS) - 1 THEN @ + 1 ELSE @]
           /\ ModelSelectStep(Key("Enter", "", {})) =>
               /\ app'.current_model = AVAILABLE_MODELS[app.model_select_index + 1]
               /\ app'.history =
                      Append(app.history,
                             Message("system", MODEL_SWITCHED_PREFIX \o app'.current_model))
               /\ Mode(app') = "Normal"
           /\ ModelSelectStep(Key("Esc", "", {})) =>
               /\ Mode(app') = "Normal"
               /\ app'.current_model = app.current_model
               /\ app'.history = app.history
           /\ NormalAltM(ModelEnv) =>
               /\ Mode(app') = "ModelSelect"
               /\ AVAILABLE_MODELS[app'.model_select_index + 1] = app.current_model
         ]_vars

\* C15 happens: the first entry of the catalog was reached and confirmed, and
\* the popup, opened again, has the index on it
C15_Witness ==
    /\ app.show_model_select
    /\ app.model_select_index = 0
    /\ app.current_model = AVAILABLE_MODELS[1]
    /\ app.history # <<>>

\* the models of the catalog
Catalog == { AVAILABLE_MODELS[i] : i \in 1..Len(AVAILABLE_MODELS) }

\* C16: the active model is a model of the catalog; a step that changes it is
\* Enter in the ModelSelect popup; a request task is spawned with the model
\* active at its submission and keeps that model while it is in flight.
C16_ActiveModel ==
    /\ [](app.current_model \in Catalog)
    /\ [][ /\ app'.current_model # app.current_model =>
                   ModelSelectStep(Key("Enter", "", {}))
           /\ Len(tasks') >= Len(tasks)
           /\ \A i \in 1..Len(tasks') :
                  IF i > Len(tasks)
                  THEN /\ tasks'[i].state = "running"
                       /\ tasks'[i].request.model = app.current_model
                       /\ app'.current_model = app.current_model
                  ELSE tasks'[i].state # "done" => tasks'[i].request = tasks[i].request
         ]_vars

\* C16 happens: a model other than the initial one was confirmed, and a
\* request submitted afterwards is in flight with it
C16_Witness ==
    /\ Len(tasks) = 1
    /\ tasks[1].state = "running"
    /\ app.current_model # DEFAULT_MODEL
    /\ tasks[1].request.model = app.current_model

\* the key is handled in the Config popup; error is what the write of the
\* configuration file returned
ConfigStep(key, error) ==
    /\ pc = "poll" /\ Running /\ Mode(app) = "Config"
    /\ pc' = "recv"
    /\ app' = config_key(app, key, error)
    /\ IF key.code = "Enter"
       THEN config_file' \in Config_save(config_file, app.config_input, error)
       ELSE config_file' = config_file

\* C17: in Config, Enter makes the draft the active token, hands it to the
\* configuration store (the file then holds it, or the store's error is
\* noted in the log and the file is as it was or holds no token), closes the
\* popup and empties the draft; Escape closes
\* the popup, empties the draft and leaves the active token and the file
\* alone; Alt+C opens the popup with the active token as the draft; a request
\* is spawned with the token active at its submission.
C17_Config ==
    [][ /\ (\E error \in Results : ConfigStep(Key("Enter", "", {}), error)) =>
            /\ app'.auth_token = app.config_input
            /\ app'.config.auth_token = app.config_input
            /\ \/ /\ config_file' = Some(app.config_input)
                  /\ app'.history = app.history
               \/ /\ config_file' \in {config_file, None}
                  /\ Len(app'.history) = Len(app.history) + 1
                  /\ Last(app'.history).role = "system"
                  /\ IsPrefix(CONFIG_ERROR_PREFIX, Last(app'.history).content)
            /\ Mode(app') = "Normal"
            /\ app'.config_input = <<>>
        /\ ConfigStep(Key("Esc", "", {}), None) =>
            /\ Mode(app') = "Normal"
            /\ app'.config_input = <<>>
            /\ app'.auth_token = app.auth_token
            /\ config_file' = config_file
        /\ NormalAltC(FullEnv) =>
            /\ Mode(app') = "Config"
            /\ app'.config_input = app.auth_token
        /\ \A i \in 1..Len(tasks') :
               i > Len(tasks) => tasks'[i].request.auth_token = app.auth_token
      ]_vars

\* C17 happens: the token was emptied in the Config popup, the file holds the
\* empty token, and the submission that followed was refused for it
C17_Witness ==
    /\ config_file = Some(<<>>)
    /\ app.auth_token = <<>>
    /\ Mode(app) = "Normal"
    /\ app.history # <<>>
    /\ Last(app.history) = Message("system", AUTH_ERROR_TEXT)

\* C18: a key handled while Help is open, whichever key it is, closes Help
\* and leaves the application in Normal.
C18_AnyKeyClosesHelp ==
    [][ HelpKey(FullEnv) => Mode(app') = "Normal" ]_vars

(***************************************************************************)
(* Leaving the program: Escape and Ctrl+C are pressed in Normal and in     *)
(* every popup, with the focus on either pane, while requests are in       *)
(* flight and replies are queued.                                          *)
(***************************************************************************)
\* requests submitted in one run of SpecExit
MaxExitRequests == 2

ExitKeys ==
    PlainKeys({"Esc", "Enter", "Tab"}) \cup {CtrlC} \cup AltKeys({"h", "c", "m"})

ExitEnv ==
    [ keys |-> ExitKeys,
      config_keys |-> PlainKeys({"Esc", "Enter"}) \cup {CtrlC},
      areas |-> Areas,
      outcomes |-> { [kind |-> "content", text |-> <<"h", "i">>] },
      files |-> InitFiles, max_requests |-> MaxExitRequests,
      max_model_up |-> MaxModelUp ]

InitExit == InitIn(ExitEnv)

NextExit ==
    \/ Receive
    \/ Draw(ExitEnv)
    \/ NoKey
    \/ HelpKey(ExitEnv)
    \/ ConfigKey(ExitEnv)
    \/ ModelSelectKey(ExitEnv)
    \/ NormalEnter(ExitEnv)
    \/ NormalTab(ExitEnv)
    \/ NormalCtrlC(ExitEnv)
    \/ NormalAltH(ExitEnv)
    \/ NormalAltC(ExitEnv)
    \/ NormalAltM(ExitEnv)
    \/ NormalEsc(ExitEnv)
    \/ \E i \in 1..Len(tasks) : TaskComplete(ExitEnv, i)

SpecExit == InitExit /\ [][NextExit]_vars

\* C19: whenever the loop polls in Normal, the Escape key and the Ctrl+C key
\* can be handled, each by the arm that leaves the loop, whatever the focus,
\* the requests in flight and the channel hold; a step that leaves the loop
\* starts in Normal, so no key handled in Help, Config or ModelSelect ends
\* the program.
C19_Exit ==
    /\ normal_arm(Key("Esc", "", {})) = "Esc"
    /\ normal_arm(CtrlC) = "CtrlC"
    /\ []((pc = "poll" /\ Running /\ Mode(app) = "Normal") =>
             (ENABLED NormalEsc(ExitEnv) /\ ENABLED NormalCtrlC(ExitEnv)))
    /\ [][ /\ (NormalEsc(ExitEnv) \/ NormalCtrlC(ExitEnv)) => pc' = "exited"
           /\ (pc' = "exited" /\ pc # "exited") => Mode(app) = "Normal"
           /\ (HelpKey(ExitEnv) \/ ConfigKey(ExitEnv) \/ ModelSelectKey(ExitEnv)) =>
                  pc' = "recv" ]_vars

\* C19 happens: the program was left with the focus on the history pane, a
\* reply queued in the channel and a request still in flight
C19_Witness ==
    /\ pc = "exited"
    /\ app.active_box = 1
    /\ chan # <<>>
    /\ \E i \in 1..Len(tasks) : tasks[i].state = "running"

\* C19, in a popup: Ctrl+C was typed into the draft of the Config popup and
\* the loop goes on
C19_InConfig ==
    /\ Mode(app) = "Config"
    /\ app.config_input = <<"c">>
    /\ pc = "recv"

\* C20: with the input focused and an empty input history, Up and Down leave
\* the input buffer, the saved draft and the navigation cursor as they were,
\* whatever text the input buffer holds.
C20_EmptyHistoryNoOp ==
    [][ ( /\ app.input_history = <<>>
          /\ app.active_box = 0
          /\ (NormalUp(HistoryEnv) \/ NormalDown(HistoryEnv)) ) =>
            /\ app'.input = app.input
            /\ app'.current_input = app.current_input
            /\ app'.input_history_index = app.input_history_index ]_vars

(***************************************************************************)
(* Recording the input: a letter or a space is typed, submitted and        *)
(* recalled.                                                               *)
(***************************************************************************)
RecordKeys ==
    PlainKeys({"Enter", "Up", "Down", "Backspace"}) \cup CharKeys({"a", " "})

RecordEnv ==
    [ keys |-> RecordKeys, config_keys |-> {}, areas |-> Areas,
      outcomes |-> {}, files |-> {Some(<<"a">>)},
      max_requests |-> MaxHistoryRequests,
      max_model_up |-> MaxModelUp ]

InitRecord == InitIn(RecordEnv)

NextRecord ==
    \/ Receive
    \/ Draw(RecordEnv)
    \/ NoKey
    \/ NormalEnter(RecordEnv)
    \/ NormalUp(RecordEnv)
    \/ NormalDown(RecordEnv)
    \/ NormalChar(RecordEnv)
    \/ NormalBackspace(RecordEnv)

SpecRecord == InitRecord /\ [][NextRecord]_vars

\* C21: a submission appends its input to the input history exactly when the
\* input is non-empty and differs from the last entry, and clears the
\* navigation cursor and the saved draft; the input history holds no empty
\* entry and no two adjacent equal entries, and every step keeps the entries
\* it held, in their order, as its beginning.
C21_RecordInput ==
    /\ [](\A i \in 1..Len(app.input_history) :
              /\ app.input_history[i] # <<>>
              /\ i > 1 => app.input_history[i] # app.input_history[i - 1])
    /\ [][ /\ IsPrefix(app.input_history, app'.input_history)
           /\ SubmitStep(RecordEnv) =>
                  /\ app'.input_history =
                         IF /\ app.input # <<>>
                            /\ (app.input_history = <<>>
                                \/ Last(app.input_history) # app.input)
                         THEN Append(app.input_history, app.input)
                         ELSE app.input_history
                  /\ app'.input_history_index = None
                  /\ app'.current_input = <<>> ]_vars

\* C22: a step that appends a message to the log leaves the scroll offset at
\* the bottom position of the new content, max(0, content height - viewport
\* height); Up and Down with the history pane focused move the offset by one,
\* saturating at 0 and at the largest u16, whatever the content height is.
C22_AppendScrollsToBottom ==
    [][ /\ (app'.history # app.history /\ app'.response_area # None) =>
               LET content == get_content_height(app')
                   viewport == app'.response_area[1].height
               IN  app'.scroll_offset =
                       IF content > viewport THEN content - viewport ELSE 0
        /\ (NormalUp(FullEnv) /\ app.active_box = 1) =>
               app'.scroll_offset =
                   IF app.scroll_offset > 0 THEN app.scroll_offset - 1 ELSE 0
        /\ (NormalDown(FullEnv) /\ app.active_box = 1) =>
               app'.scroll_offset =
                   IF app.scroll_offset < U16 - 1 THEN app.scroll_offset + 1
                   ELSE U16 - 1 ]_vars

(***************************************************************************)
(* The markup renderer, App::markdown_to_styled_text (main.rs:407-501).    *)
(* The replies are documents of headings, paragraphs, tight lists and      *)
(* fenced code blocks whose text holds emphasis, strong emphasis and line  *)
(* breaks.  Parser is the markup parser of the pulldown-cmark crate on the *)
(* source texts of these documents.                                        *)
(***************************************************************************)
\* blocks of a document
MaxBlocks == 2
\* the levels of the headings
MaxHeading == 2

\* Style of the terminal library: colours and modifiers
Style_default == [fg |-> None, bg |-> None, add_modifier |-> {}]

Span_styled(content, style) == [content |-> content, style |-> style]

Span_raw(content) == Span_styled(content, Style_default)

\* Tag of the parser
NoTag == [name |-> "", level |-> 0]
Paragraph == [name |-> "Paragraph", level |-> 0]
Heading(level) == [name |-> "Heading", level |-> level]
CodeBlock == [name |-> "CodeBlock", level |-> 0]
List == [name |-> "List", level |-> 0]
Item == [name |-> "Item", level |-> 0]
Emphasis == [name |-> "Emphasis", level |-> 0]
Strong == [name |-> "Strong", level |-> 0]

\* MarkdownEvent of the parser
Start(tag) == [kind |-> "Start", tag |-> tag, text |-> <<>>]
End(tag) == [kind |-> "End", tag |-> tag, text |-> <<>>]
Text(text) == [kind |-> "Text", tag |-> NoTag, text |-> text]
SoftBreak == [kind |-> "SoftBreak", tag |-> NoTag, text |-> <<>>]
HardBreak == [kind |-> "HardBreak", tag |-> NoTag, text |-> <<>>]

RECURSIVE Repeat(_, _)
\* str::repeat
Repeat(text, n) == IF n = 0 THEN <<>> ELSE text \o Repeat(text, n - 1)

\* the locals of markdown_to_styled_text, main.rs:410-413
RenderStart ==
    [ styled_lines |-> <<>>, current_line |-> <<>>,
      in_code_block |-> FALSE, list_level |-> 0 ]

\* main.rs:418-421 and its repetitions: the current line, when it holds a
\* span, becomes a line of the output
push_line(s) ==
    IF s.current_line # <<>>
    THEN [s EXCEPT !.styled_lines = Append(@, s.current_line),
                   !.current_line = <<>>]
    ELSE s

\* render_event whose End arm pushes the line for every tag
render_event_end_pushes(s, event) ==
    LET push_span(t, span) == [t EXCEPT !.current_line = Append(@, span)] IN
    CASE event.kind = "Start" /\ event.tag.name = "Heading" ->
             push_span(push_line(s),
                       Span_styled(Repeat(<<"#">>, event.tag.level) \o <<" ">>,
                                   [fg |-> Some("Yellow"), bg |-> None,
                                    add_modifier |-> {"BOLD"}]))
      [] event.kind = "Start" /\ event.tag.name = "CodeBlock" ->
             [push_line(s) EXCEPT !.in_code_block = TRUE]
      [] event.kind = "End" /\ event.tag.name = "CodeBlock" ->
             [push_line(s) EXCEPT !.in_code_block = FALSE]
      [] event.kind = "Start" /\ event.tag.name = "List" ->
             [s EXCEPT !.list_level = @ + 1]
      [] event.kind = "End" /\ event.tag.name = "List" ->
             [s EXCEPT !.list_level = @ - 1]
      [] event.kind = "Start" /\ event.tag.name = "Item" ->
             push_span(push_line(s),
                       Span_raw(Repeat(<<" ", " ">>, s.list_level - 1)
                                \o <<"U+2022", " ">>))
      [] event.kind = "Start" /\ event.tag.name = "Emphasis" ->
             push_span(s, Span_styled(<<>>, [fg |-> None, bg |-> None,
                                             add_modifier |-> {"ITALIC"}]))
      [] event.kind = "Start" /\ event.tag.name = "Strong" ->
             push_span(s, Span_styled(<<>>, [fg |-> None, bg |-> None,
                                             add_modifier |-> {"BOLD"}]))
      [] event.kind = "Text" ->
             push_span(s, Span_styled(event.text,
                                      IF s.in_code_block
                                      THEN [fg |-> Some("Cyan"), bg |-> Some("Black"),
                                            add_modifier |-> {}]
                                      ELSE Style_default))
      [] event.kind = "End" /\ event.tag.name \notin {"CodeBlock", "List"} ->
             push_line(s)
      [] event.kind \in {"SoftBreak", "HardBreak"} -> push_line(s)
      [] OTHER -> s

\* main.rs:416-493: one turn of the loop over the parser's events
render_event(s, event) ==
    LET push_span(t, span) == [t EXCEPT !.current_line = Append(@, span)] IN
    CASE event.kind = "Start" /\ event.tag.name = "Heading" ->
             push_span(push_line(s),
                       Span_styled(Repeat(<<"#">>, event.tag.level) \o <<" ">>,
                                   [fg |-> Some("Yellow"), bg |-> None,
                                    add_modifier |-> {"BOLD"}]))
      [] event.kind = "Start" /\ event.tag.name = "CodeBlock" ->
             [push_line(s) EXCEPT !.in_code_block = TRUE]
      [] event.kind = "End" /\ event.tag.name = "CodeBlock" ->
             [push_line(s) EXCEPT !.in_code_block = FALSE]
      [] event.kind = "Start" /\ event.tag.name = "List" ->
             [s EXCEPT !.list_level = @ + 1]
      [] event.kind = "End" /\ event.tag.name = "List" ->
             [s EXCEPT !.list_level = @ - 1]
      [] event.kind = "Start" /\ event.tag.name = "Item" ->
             push_span(push_line(s),
                       Span_raw(Repeat(<<" ", " ">>, s.list_level - 1)
                                \o <<"U+2022", " ">>))
      [] event.kind = "Start" /\ event.tag.name = "Emphasis" ->
             push_span(s, Span_styled(<<>>, [fg |-> None, bg |-> None,
                                             add_modifier |-> {"ITALIC"}]))
      [] event.kind = "Start" /\ event.tag.name = "Strong" ->
             push_span(s, Span_styled(<<>>, [fg |-> None, bg |-> None,
                                             add_modifier |-> {"BOLD"}]))
      [] event.kind = "Text" ->
             push_span(s, Span_styled(event.text,
                                      IF s.in_code_block
                                      THEN [fg |-> Some("Cyan"), bg |-> Some("Black"),
                                            add_modifier |-> {}]
                                      ELSE Style_default))
      [] event.kind = "End"
         /\ event.tag.name \notin {"CodeBlock", "List", "Emphasis", "Strong"} ->
             push_line(s)
      [] event.kind \in {"SoftBreak", "HardBreak"} -> push_line(s)
      [] OTHER -> s

RECURSIVE render_events(_, _)
\* main.rs:415-493: the loop over the parser's events, from the locals s
render_events(s, events) ==
    IF events = <<>> THEN s
    ELSE render_events(render_event(s, Head(events)), Tail(events))

\* the locals of the renderer before it takes the i-th event
render_before(events, i) == render_events(RenderStart, SubSeq(events, 1, i - 1))

\* the text runs of a block
InlineRuns ==
    { <<Text(<<"a">>)>>,
      <<Text(<<"a", " ">>), Start(Emphasis), Text(<<"b">>), End(Emphasis),
        Text(<<" ", "c">>)>>,
      <<Start(Strong), Text(<<"b">>), End(Strong), Text(<<" ", "c">>)>> }

\* the text runs of a paragraph, which also holds line breaks
ParagraphRuns ==
    InlineRuns
    \cup { <<Text(<<"a">>), SoftBreak, Text(<<"b">>)>>,
           <<Text(<<"a">>), HardBreak, Text(<<"b">>)>>,
           <<Start(Emphasis), Text(<<"a">>), SoftBreak, Text(<<"b">>),
             End(Emphasis), Text(<<" ", "c">>)>> }

\* the items of a tight list
ListItems == { <<Start(Item)>> \o r \o <<End(Item)>> : r \in InlineRuns }

\* the events of one block
Blocks ==
    { <<Start(Paragraph)>> \o r \o <<End(Paragraph)>> : r \in ParagraphRuns }
    \cup { <<Start(Heading(n))>> \o r \o <<End(Heading(n))>> :
               n \in 1..MaxHeading, r \in InlineRuns }
    \cup { <<Start(List)>> \o i \o <<End(List)>> : i \in ListItems }
    \cup { <<Start(List)>> \o i \o j \o <<End(List)>> : i, j \in ListItems }
    \cup { <<Start(CodeBlock), Text(<<"a", "\n">>), End(CodeBlock)>> }

RECURSIVE BlockSeqs(_)
\* the events of n blocks; a list ends at a block that is no list
BlockSeqs(n) ==
    IF n = 1 THEN Blocks
    ELSE { p[1] \o p[2] :
               p \in { q \in BlockSeqs(n - 1) \X Blocks :
                          q[2][1] = Start(List) => Last(q[1]) # End(List) } }

\* the event streams of the documents
Documents == UNION { BlockSeqs(n) : n \in 1..MaxBlocks }

RECURSIVE Source(_)
\* the markup text of a document
Source(events) ==
    IF events = <<>> THEN <<>>
    ELSE LET event == Head(events)
             rest == Tail(events)
             blank == IF rest = <<>> THEN <<>> ELSE <<"\n", "\n">>
             text ==
                 CASE event.kind = "Text" -> event.text
                   [] event.kind = "SoftBreak" -> <<"\n">>
                   [] event.kind = "HardBreak" -> <<" ", " ", "\n">>
                   [] event.kind = "Start" /\ event.tag.name = "Heading" ->
                          Repeat(<<"#">>, event.tag.level) \o <<" ">>
                   [] event.kind = "Start" /\ event.tag.name = "CodeBlock" ->
                          <<"~", "~", "~", "\n">>
                   [] event.kind = "End" /\ event.tag.name = "CodeBlock" ->
                          <<"~", "~", "~">> \o blank
                   [] event.kind = "Start" /\ event.tag.name = "Item" -> <<"-", " ">>
                   [] event.kind = "End" /\ event.tag.name = "Item" ->
                          IF Head(rest) = Start(Item) THEN <<"\n">> ELSE <<>>
                   [] event.tag.name = "Emphasis" -> <<"*">>
                   [] event.tag.name = "Strong" -> <<"*", "*">>
                   [] event.kind = "End" -> blank
                   [] OTHER -> <<>>
         IN  text \o Source(rest)

\* the markup text of every document
SourceOf == [d \in Documents |-> Source(d)]

\* Parser::new(markdown), main.rs:409: the events of a document's text
Parser(markdown) == CHOOSE d \in Documents : SourceOf[d] = markdown

\* App::markdown_to_styled_text, main.rs:407-501; the width of line 408 is
\* not used
markdown_to_styled_text(markdown) ==
    push_line(render_events(RenderStart, Parser(markdown))).styled_lines

\* the replies are the documents
MarkupEnv ==
    [ keys |-> PlainKeys({"Enter"}), config_keys |-> {}, areas |-> Areas,
      outcomes |-> { [kind |-> "content", text |-> SourceOf[d]] : d \in Documents },
      files |-> {Some(<<"a">>)}, max_requests |-> 1,
      max_model_up |-> MaxModelUp ]

InitMarkup == InitIn(MarkupEnv)

NextMarkup ==
    \/ Receive
    \/ Draw(MarkupEnv)
    \/ NoKey
    \/ NormalEnter(MarkupEnv)
    \/ \E i \in 1..Len(tasks) : TaskComplete(MarkupEnv, i)

SpecMarkup == InitMarkup /\ [][NextMarkup]_vars

\* the events of the replies in the log
RepliesEvents ==
    { Parser(app.history[i].content) :
          i \in { j \in 1..Len(app.history) : app.history[j].role = "assistant" } }

\* C23: in the markup renderer the close of an emphasis or strong span leaves
\* the lines and the current line as they are, so the text before, inside and
\* after the span stays on one line; the close of a paragraph, a heading, a
\* list item or a code block, and every soft or hard break, ends the current
\* line when it holds a span and leaves an empty current line.
C23_CloseAndBreak ==
    \A events \in RepliesEvents : \A i \in 1..Len(events) :
        LET event == events[i]
            before == render_before(events, i)
            after == render_event(before, event)
        IN  /\ (event.kind = "End" /\ event.tag.name \in {"Emphasis", "Strong"}) =>
                   after = before
            /\ (\/ event.kind \in {"SoftBreak", "HardBreak"}
                \/ /\ event.kind = "End"
                   /\ event.tag.name \in {"Paragraph", "Heading", "Item", "CodeBlock"}) =>
                   /\ after.current_line = <<>>
                   /\ after.styled_lines =
                          IF before.current_line # <<>>
                          THEN Append(before.styled_lines, before.current_line)
                          ELSE before.styled_lines

\* a reply in the log holds an emphasis span with text before and after it
\* on one rendered line, and a break that ended a line
C23_Witness ==
    \E i \in 1..Len(app.history) :
        /\ app.history[i].role = "assistant"
        /\ LET events == Parser(app.history[i].content)
               lines == markdown_to_styled_text(app.history[i].content)
           IN  /\ \E k \in 1..Len(events) : events[k].kind = "SoftBreak"
               /\ Len(lines) >= 3
               /\ \E l \in 1..Len(lines) : \E j \in 2..(Len(lines[l]) - 2) :
                      /\ lines[l][j - 1].content # <<>>
                      /\ lines[l][j].style.add_modifier = {"ITALIC"}
                      /\ lines[l][j + 2].content # <<>>

\* C24: every text run between the open and the close of an emphasis span is
\* emitted with the italic modifier, every text run between the open and the
\* close of a strong span with the bold modifier, and the text runs outside
\* the spans without them.
C24_SpanStyle ==
    \A events \in RepliesEvents : \A i \in 1..Len(events) :
        events[i].kind = "Text" =>
            LET opened(name) ==
                    \E j \in 1..(i - 1) :
                        /\ events[j] = Start([name |-> name, level |-> 0])
                        /\ \A k \in (j + 1)..(i - 1) :
                               events[k] # End([name |-> name, level |-> 0])
                span == Last(render_event(render_before(events, i), events[i]).current_line)
            IN  /\ "ITALIC" \in span.style.add_modifier <=> opened("Emphasis")
                /\ "BOLD" \in span.style.add_modifier <=> opened("Strong")

\* a submitted request whose result the log does not hold yet: its task runs
\* or waits to send, its message is in the channel, or it ended without one
Outstanding ==
    \/ chan # <<>>
    \/ \E i \in 1..Len(tasks) :
           tasks[i].state # "done" \/ tasks[i].sends = 0

\* C25: the loading flag is true exactly while a submitted request has not
\* had its result appended; it is false once every outstanding result, reply
\* or error message, has been received, and true while a request is in
\* flight.
C25_Loading == app.is_loading <=> Outstanding

(***************************************************************************)
(* A narrow terminal: the history pane is drawn 80 or NarrowWidth columns  *)
(* wide, as the terminal is resized between frames.  A header is 15 to 19  *)
(* bytes long, so at NarrowWidth columns the content width of              *)
(* format_history (main.rs:387) is zero.                                   *)
(***************************************************************************)
\* columns of the narrow pane
NarrowWidth == 20

NarrowAreas == Areas \cup { [width |-> NarrowWidth, height |-> 4] }

NarrowKeys == PlainKeys({"Enter", "Tab"}) \cup CharKeys({"a"})

NarrowEnv ==
    [ keys |-> NarrowKeys, config_keys |-> {}, areas |-> NarrowAreas,
      outcomes |-> Outcomes, files |-> {Some(<<"a">>)},
      max_requests |-> MaxRequests,
      max_model_up |-> MaxModelUp ]

InitNarrow == InitIn(NarrowEnv)

NextNarrow ==
    \/ Receive
    \/ Draw(NarrowEnv)
    \/ NoKey
    \/ NormalEnter(NarrowEnv)
    \/ NormalTab(NarrowEnv)
    \/ NormalChar(NarrowEnv)
    \/ \E i \in 1..Len(tasks) : TaskComplete(NarrowEnv, i)

SpecNarrow == InitNarrow /\ [][NextNarrow]_vars

\* C26: every iteration of the main loop completes: appending a message and
\* recomputing the content height terminates for every width of the pane, a
\* content width of zero included, so control is never held inside the
\* wrapping loop.
C26_IterationCompletes == ~app.hung

\* a step of the main loop that handles an event while a popup is open
PopupStep == pc = "poll" /\ Running /\ Mode(app) # "Normal" /\ pc' = "recv"

\* the receive step of the main loop, taken while a popup is open and a
\* message is queued
PopupReceiveStep ==
    pc = "recv" /\ Running /\ Mode(app) # "Normal" /\ chan # <<>> /\ pc' = "draw"

\* C27: while Help, Config or ModelSelect is open, a key event leaves the
\* input buffer, the focus, the input history, the navigation cursor and the
\* scroll offset as they are and starts no request, and the receive step
\* still appends the oldest queued message; and the navigation cursor, when
\* it is set, is an index of the input history.
C27_PopupIsolation ==
    /\ [](app.input_history_index # None =>
              app.input_history_index[1] \in 0..(Len(app.input_history) - 1))
    /\ [][ /\ PopupStep =>
                  /\ app'.input = app.input
                  /\ app'.active_box = app.active_box
                  /\ app'.input_history = app.input_history
                  /\ app'.input_history_index = app.input_history_index
                  /\ app'.scroll_offset = app.scroll_offset
                  /\ tasks' = tasks
           /\ PopupReceiveStep =>
                  /\ app'.history = Append(pop_pending(app.history), Head(chan))
                  /\ chan' = Tail(chan) ]_vars

\* the Config popup is open and a key has edited its draft, while the cursor
\* is on an entry of the input history and the input buffer holds text, and
\* the loop is at its receive step with a reply queued
C27_Witness ==
    /\ Mode(app) = "Config"
    /\ app.config_input # app.auth_token
    /\ app.input_history_index # None
    /\ app.input # <<>>
    /\ pc = "recv"
    /\ chan # <<>> /\ Head(chan).role = "assistant"

=============================================================================
